---- MODULE Spec2Model ----
\* Model of app.py, the Streamlit ER-note generator.
\*
\*   setup_api_key()      app.py 12-21   credential lookup, genai.configure
\*   generate_er_note(t)  app.py 23-79   validate, build the prompt, one remote
\*                                       call, post-process or map the error
\*   the UI script        app.py 84-106  re-executed top to bottom on every
\*                                       page load and widget interaction
\*
\* Strings are sequences of one-character strings.  Fixed literals of the
\* source (the warning, the error prefix, the prompt template around the
\* embedded text) are sequences of one token each, written in ASCII
\* (without the emoji the source puts in front of them).
EXTENDS Integers, Sequences, FiniteSets

VARIABLES
    env,          \* os.environ.get("GEMINI_API_KEY"): a record [set, s]
    secrets,      \* what st.secrets["GEMINI_API_KEY"] will do in this process
    apiKey,       \* the key genai.configure stored: a record [set, s]
    setupResult,  \* last outcome of setup_api_key: none / true / false / raised
    setupCalls,   \* invocations of setup_api_key in this process
    configures,   \* calls of genai.configure in this process
    consulted,    \* whether the last setup_api_key evaluated st.secrets[...]
    runs,         \* executions of the UI script in this process
    trigger,      \* the interaction that started the last script execution
    source_text,  \* the text area's widget value
    shown,        \* the page elements rendered by the last script execution
    output,       \* what st.markdown rendered: a record [set, s]
    pc,           \* position of the UI script
    gpc,          \* position inside generate_er_note
    arg,          \* text_content of the current invocation: a record [none, s]
    calls,        \* model.generate_content calls made by the current invocation
    prompt,       \* the prompt passed to generate_content: a record [set, s]
    response,     \* response.text of a successful call: a record [set, s]
    exc,          \* the exception raised in the current invocation: [at, msg]
    result,       \* the value generate_er_note returned: a record [set, s]
    invocations,  \* invocations of generate_er_note in this process
    netCalls      \* generate_content calls in this process

vars == <<env, secrets, apiKey, setupResult, setupCalls, configures, consulted, runs,
          trigger, source_text, shown, output, pc, gpc, arg, calls, prompt,
          response, exc, result, invocations, netCalls>>

credVars == <<env, secrets, apiKey, setupResult, setupCalls, configures, consulted>>
uiVars   == <<runs, trigger, source_text, shown, output, pc>>
genVars  == <<gpc, arg, calls, prompt, response, exc, result, invocations, netCalls>>

-----------------------------------------------------------------------------
\* Bounds

\* longest response text the remote service returns
MaxLen == 5
\* longest text a user types / a caller passes
MaxInputLen == 2
\* script executions per process
MaxRuns == 3
\* longest response text in a run of the UI script
MaxNoteLen == 2

-----------------------------------------------------------------------------
\* Strings

\* the backtick character, by name
BACKTICK == "BACKTICK"

\* characters str.strip() removes
Whitespace == {" "}

\* characters of response texts
Alphabet == {BACKTICK, " ", "a"}

\* characters of input texts
InputAlphabet == {" ", "a"}

Strings(A, n) == UNION {[1..k -> A] : k \in 0..n}

Responses == Strings(Alphabet, MaxLen)

Inputs == Strings(InputAlphabet, MaxInputLen)

\* the response texts drawn while the UI script runs
Notes == Strings(Alphabet, MaxNoteLen)

\* str(e) of the exceptions the remote service raises
Errors == {<<"quota exceeded">>, <<"4", "0", "3">>}

Unset == [set |-> FALSE, s |-> <<>>]

Val(s) == [set |-> TRUE, s |-> s]

\* a Python str argument, and the argument None
Str(s) == [none |-> FALSE, s |-> s]

None == [none |-> TRUE, s |-> <<>>]

NoExc == [at |-> "none", msg |-> <<>>]

IsSubstring(x, y) ==
    \E i \in 0..(Len(y) - Len(x)) : SubSeq(y, i + 1, i + Len(x)) = x

RECURSIVE LStrip(_)
LStrip(s) ==
    IF s # <<>> /\ Head(s) \in Whitespace THEN LStrip(Tail(s)) ELSE s

RECURSIVE RStrip(_)
RStrip(s) ==
    IF s # <<>> /\ s[Len(s)] \in Whitespace
    THEN RStrip(SubSeq(s, 1, Len(s) - 1))
    ELSE s

\* str.strip()
Strip(s) == RStrip(LStrip(s))

\* str.replace(<three backticks>, ""): left to right, non-overlapping, one pass
RECURSIVE RemoveFences(_)
RemoveFences(s) ==
    IF Len(s) < 3 THEN s
    ELSE IF SubSeq(s, 1, 3) = <<BACKTICK, BACKTICK, BACKTICK>>
         THEN RemoveFences(SubSeq(s, 4, Len(s)))
         ELSE <<Head(s)>> \o RemoveFences(Tail(s))

-----------------------------------------------------------------------------
\* generate_er_note

\* not text_content
Falsy(t) == t.none \/ t.s = <<>>

IsBlank_no_strip(t) == Falsy(t)

\* not text_content or not text_content.strip()
IsBlank(t) == Falsy(t) \/ Strip(t.s) = <<>>

WarningString == <<"Error: Input text cannot be empty.">>

\* the template text before and after {text_content}
PromptHead == <<"Use the information in the document ...", "**Document Content:**", "---">>

PromptTail == <<"---", "**ER Note Template:**", "@DEPTNME@ DEPARTMENT ENCOUNTER NOTE ...">>

Prompt_stripped(s) == PromptHead \o Strip(s) \o PromptTail

\* the f-string of lines 29-74
Prompt(s) == PromptHead \o s \o PromptTail

PostProcess_strip_first(r) == RemoveFences(Strip(r))

\* response.text.replace(<three backticks>, "").strip()
PostProcess(r) == Strip(RemoveFences(r))

ErrorPrefix == <<"An error occurred with the API: ">>

ErrorString_no_detail(e) == ErrorPrefix

\* the f-string of line 79
ErrorString(e) == ErrorPrefix \o e

\* generate_er_note(t) from its entry to the point where it either returns,
\* raises, or blocks in model.generate_content(prompt).  Line 28 constructs
\* the model client outside the try block: an exception there propagates.
Enter(t) ==
    /\ arg' = t
    /\ invocations' = invocations + 1
    /\ response' = Unset
    /\ IF IsBlank(t)
       THEN /\ gpc' = "returned"
            /\ result' = Val(WarningString)
            /\ calls' = 0
            /\ prompt' = Unset
            /\ exc' = NoExc
            /\ netCalls' = netCalls
       ELSE \/ \E e \in Errors :
                 /\ gpc' = "raised"
                 /\ exc' = [at |-> "construct", msg |-> e]
                 /\ result' = Unset
                 /\ calls' = 0
                 /\ prompt' = Unset
                 /\ netCalls' = netCalls
            \/ /\ gpc' = "remote"
               /\ prompt' = Val(Prompt(t.s))
               /\ calls' = 1
               /\ netCalls' = netCalls + 1
               /\ exc' = NoExc
               /\ result' = Unset

\* generate_content returned and response.text is r: line 77 returns
GenerateContentReturns(r) ==
    /\ gpc = "remote"
    /\ response' = Val(r)
    /\ result' = Val(PostProcess(r))
    /\ gpc' = "returned"
    /\ UNCHANGED <<arg, calls, prompt, exc, invocations, netCalls>>
    /\ UNCHANGED <<credVars, uiVars>>

\* generate_content raised e: lines 78-79 return the error string
GenerateContentRaises(e) ==
    /\ gpc = "remote"
    /\ exc' = [at |-> "request", msg |-> e]
    /\ result' = Val(ErrorString(e))
    /\ gpc' = "returned"
    /\ UNCHANGED <<arg, calls, prompt, response, invocations, netCalls>>
    /\ UNCHANGED <<credVars, uiVars>>

\* generate_content returned, reading response.text raised e (a response
\* without a text part): lines 78-79 return the error string
ResponseTextRaises(e) ==
    /\ gpc = "remote"
    /\ exc' = [at |-> "text", msg |-> e]
    /\ result' = Val(ErrorString(e))
    /\ gpc' = "returned"
    /\ UNCHANGED <<arg, calls, prompt, response, invocations, netCalls>>
    /\ UNCHANGED <<credVars, uiVars>>

\* the blocking call of a script run ends, one way or another
RemoteCompletes ==
    \/ \E r \in Notes : GenerateContentReturns(r)
    \/ \E e \in Errors : GenerateContentRaises(e)
    \/ \E e \in Errors : ResponseTextRaises(e)

-----------------------------------------------------------------------------
\* generate_er_note called directly, once, with any argument

Invoke(t) ==
    /\ pc = "harness"
    /\ gpc = "idle"
    /\ Enter(t)
    /\ UNCHANGED <<credVars, uiVars>>

GenInit ==
    /\ env = Unset
    /\ secrets = [kind |-> "KeyError", s |-> <<>>]
    /\ apiKey = Unset
    /\ setupResult = "none"
    /\ setupCalls = 0
    /\ configures = 0
    /\ consulted = FALSE
    /\ runs = 0
    /\ trigger = "none"
    /\ source_text = <<>>
    /\ shown = {}
    /\ output = Unset
    /\ pc = "harness"
    /\ gpc = "idle"
    /\ arg = None
    /\ calls = 0
    /\ prompt = Unset
    /\ response = Unset
    /\ exc = NoExc
    /\ result = Unset
    /\ invocations = 0
    /\ netCalls = 0

GenNext ==
    \/ \E t \in {Str(s) : s \in Inputs} \cup {None} : Invoke(t)
    \/ \E r \in Responses : GenerateContentReturns(r)
    \/ \E e \in Errors : GenerateContentRaises(e)
    \/ \E e \in Errors : ResponseTextRaises(e)

GenSpec == GenInit /\ [][GenNext]_vars

-----------------------------------------------------------------------------
\* setup_api_key

K1 == <<"k", "1">>

K2 == <<"k", "2">>

\* os.environ.get("GEMINI_API_KEY"): absent, set to "", set to a key
EnvValues == {Unset, Val(<<>>), Val(K1)}

\* st.secrets["GEMINI_API_KEY"]: a value, or the exception the lookup raises
\* (KeyError: the key is missing; AttributeError: no secrets attribute;
\* FileNotFoundError: no secrets file; TomlDecodeError: a malformed file)
SecretsValues ==
    {[kind |-> "value", s |-> K2]} \cup
    {[kind |-> k, s |-> <<>>] :
        k \in {"KeyError", "AttributeError", "FileNotFoundError", "TomlDecodeError"}}

\* except (KeyError, AttributeError)
Caught == {"KeyError", "AttributeError"}

SetupOutcome_secrets_first(e, sec) ==
    IF sec.kind = "value"
    THEN [ret |-> "true", key |-> Val(sec.s), consulted |-> TRUE]
    ELSE IF e.set /\ e.s # <<>>
    THEN [ret |-> "true", key |-> Val(e.s), consulted |-> TRUE]
    ELSE IF sec.kind \in Caught
    THEN [ret |-> "false", key |-> Unset, consulted |-> TRUE]
    ELSE [ret |-> "raised", key |-> Unset, consulted |-> TRUE]

\* setup_api_key(): what it returns (or that it raises), the key it hands to
\* genai.configure, and whether st.secrets was evaluated.  The left operand
\* of "or" decides alone when it is truthy, i.e. set and not empty.
SetupOutcome(e, sec) ==
    IF e.set /\ e.s # <<>>
    THEN [ret |-> "true", key |-> Val(e.s), consulted |-> FALSE]
    ELSE IF sec.kind = "value"
    THEN [ret |-> "true", key |-> Val(sec.s), consulted |-> TRUE]
    ELSE IF sec.kind \in Caught
    THEN [ret |-> "false", key |-> Unset, consulted |-> TRUE]
    ELSE [ret |-> "raised", key |-> Unset, consulted |-> TRUE]

-----------------------------------------------------------------------------
\* The UI script

Gate_no_else(ret) == ret \in {"true", "false"}

\* if not setup_api_key(): ... else: the else branch runs
Gate(ret) == ret = "true"

Page_title_in_else(ret, click) ==
    (IF ret = "raised" THEN {"exception"} ELSE {}) \cup
    (IF ret = "false" THEN {"error"} ELSE {}) \cup
    (IF Gate(ret)
     THEN {"title", "text_area", "button"} \cup (IF click THEN {"spinner"} ELSE {})
     ELSE {})

\* the elements lines 84-101 render, given setup_api_key's outcome and
\* whether st.button returned True; an uncaught exception shows as an
\* exception box
Page(ret, click) ==
    {"title"} \cup
    (IF ret = "raised" THEN {"exception"} ELSE {}) \cup
    (IF ret = "false" THEN {"error"} ELSE {}) \cup
    (IF Gate(ret)
     THEN {"text_area", "button"} \cup (IF click THEN {"spinner"} ELSE {})
     ELSE {})

RunScript_cached(trig) ==
    LET first == setupCalls = 0
        o == SetupOutcome(env, secrets)
        ret == IF first THEN o.ret ELSE setupResult
    IN  /\ runs < MaxRuns
        /\ runs' = runs + 1
        /\ trigger' = trig
        /\ setupCalls' = IF first THEN 1 ELSE setupCalls
        /\ setupResult' = ret
        /\ consulted' = IF first THEN o.consulted ELSE consulted
        /\ apiKey' = IF first /\ o.ret = "true" THEN o.key ELSE apiKey
        /\ configures' = IF first /\ o.ret = "true" THEN 1 ELSE configures
        /\ shown' = Page(ret, trig = "submit")
        /\ output' = Unset
        /\ pc' = IF Gate(ret) /\ trig = "submit" THEN "spinner" ELSE "wait"
        /\ UNCHANGED <<env, secrets, genVars>>

\* one execution of the script, lines 84-101, started by interaction trig:
\* the page is drawn afresh, setup_api_key runs, and when the button was
\* clicked the script enters the spinner block
RunScript(trig) ==
    LET o == SetupOutcome(env, secrets)
    IN  /\ runs < MaxRuns
        /\ runs' = runs + 1
        /\ trigger' = trig
        /\ setupCalls' = setupCalls + 1
        /\ setupResult' = o.ret
        /\ consulted' = o.consulted
        /\ apiKey' = IF o.ret = "true" THEN o.key ELSE apiKey
        /\ configures' = IF o.ret = "true" THEN configures + 1 ELSE configures
        /\ shown' = Page(o.ret, trig = "submit")
        /\ output' = Unset
        /\ pc' = IF Gate(o.ret) /\ trig = "submit" THEN "spinner" ELSE "wait"
        /\ UNCHANGED <<env, secrets, genVars>>

\* the browser opens the page
PageLoad ==
    /\ pc = "init"
    /\ RunScript("load")
    /\ UNCHANGED source_text

\* the user changes the text area
EditText(t) ==
    /\ pc = "wait"
    /\ "text_area" \in shown
    /\ t # source_text
    /\ source_text' = t
    /\ RunScript("edit")

\* the user clicks "Generate Note"
Submit ==
    /\ pc = "wait"
    /\ "button" \in shown
    /\ RunScript("submit")
    /\ UNCHANGED source_text

\* the user reruns or reloads the page
Rerun ==
    /\ pc = "wait"
    /\ RunScript("rerun")
    /\ UNCHANGED source_text

\* line 102: generate_er_note(source_text) inside the spinner block
CallFromScript ==
    /\ pc = "spinner"
    /\ gpc = "idle"
    /\ Enter(Str(source_text))
    /\ UNCHANGED <<credVars, uiVars>>

Render_stale ==
    /\ pc = "spinner"
    /\ gpc = "returned"
    /\ output' = output
    /\ shown' = (shown \ {"spinner"}) \cup {"subheader"}
    /\ pc' = "wait"
    /\ gpc' = "idle"
    /\ arg' = None
    /\ calls' = 0
    /\ prompt' = Unset
    /\ response' = Unset
    /\ exc' = NoExc
    /\ result' = Unset
    /\ UNCHANGED <<credVars, runs, trigger, source_text, invocations, netCalls>>

\* lines 102-106: generate_er_note returned; the subheader and the note are
\* rendered, the spinner block ends and so does the script
Render ==
    /\ pc = "spinner"
    /\ gpc = "returned"
    /\ output' = result
    /\ shown' = (shown \ {"spinner"}) \cup {"subheader", "markdown"}
    /\ pc' = "wait"
    /\ gpc' = "idle"
    /\ arg' = None
    /\ calls' = 0
    /\ prompt' = Unset
    /\ response' = Unset
    /\ exc' = NoExc
    /\ result' = Unset
    /\ UNCHANGED <<credVars, runs, trigger, source_text, invocations, netCalls>>

\* line 102: generate_er_note raised; lines 105-106 do not run, the script
\* ends with the exception shown
Abort ==
    /\ pc = "spinner"
    /\ gpc = "raised"
    /\ shown' = (shown \ {"spinner"}) \cup {"exception"}
    /\ pc' = "wait"
    /\ gpc' = "idle"
    /\ arg' = None
    /\ calls' = 0
    /\ prompt' = Unset
    /\ response' = Unset
    /\ exc' = NoExc
    /\ result' = Unset
    /\ UNCHANGED <<credVars, runs, trigger, source_text, output, invocations, netCalls>>

\* the process is stopped and started again, with any environment
Restart ==
    /\ pc # "harness"
    /\ env' \in EnvValues
    /\ secrets' \in SecretsValues
    /\ apiKey' = Unset
    /\ setupResult' = "none"
    /\ setupCalls' = 0
    /\ configures' = 0
    /\ consulted' = FALSE
    /\ runs' = 0
    /\ trigger' = "none"
    /\ source_text' = <<>>
    /\ shown' = {}
    /\ output' = Unset
    /\ pc' = "init"
    /\ gpc' = "idle"
    /\ arg' = None
    /\ calls' = 0
    /\ prompt' = Unset
    /\ response' = Unset
    /\ exc' = NoExc
    /\ result' = Unset
    /\ invocations' = 0
    /\ netCalls' = 0

\* the process has started; the environment and the secrets store are what
\* they are for the life of the process (app.py writes neither)
Init ==
    /\ env \in EnvValues
    /\ secrets \in SecretsValues
    /\ apiKey = Unset
    /\ setupResult = "none"
    /\ setupCalls = 0
    /\ configures = 0
    /\ consulted = FALSE
    /\ runs = 0
    /\ trigger = "none"
    /\ source_text = <<>>
    /\ shown = {}
    /\ output = Unset
    /\ pc = "init"
    /\ gpc = "idle"
    /\ arg = None
    /\ calls = 0
    /\ prompt = Unset
    /\ response = Unset
    /\ exc = NoExc
    /\ result = Unset
    /\ invocations = 0
    /\ netCalls = 0

Next ==
    \/ PageLoad
    \/ \E t \in Inputs : EditText(t)
    \/ Submit
    \/ Rerun
    \/ CallFromScript
    \/ \E r \in Notes : GenerateContentReturns(r)
    \/ \E e \in Errors : GenerateContentRaises(e)
    \/ \E e \in Errors : ResponseTextRaises(e)
    \/ Render
    \/ Abort
    \/ Restart

Spec == Init /\ [][Next]_vars

\* the script runs to its end once started, and the remote call ends
FairSpec ==
    /\ Spec
    /\ WF_vars(CallFromScript)
    /\ WF_vars(RemoteCompletes)
    /\ WF_vars(Render)
    /\ WF_vars(Abort)

\* the three states of the page
Blocked == pc = "wait" /\ setupResult = "false"

Idle == pc = "wait" /\ setupResult = "true"

Generating == pc = "spinner"

-----------------------------------------------------------------------------
\* Properties of generate_er_note (checked under GenSpec)

AllWhitespace(s) == \A i \in 1..Len(s) : s[i] \in Whitespace

\* the invocation has started and its argument is None, empty or whitespace only
BlankCall == gpc # "idle" /\ (arg.none \/ AllWhitespace(arg.s))

\* the invocation has started and its argument has a non-whitespace character
NonBlankCall == gpc # "idle" /\ ~arg.none /\ ~AllWhitespace(arg.s)

\* C1: an empty, None or whitespace-only argument makes generate_er_note
\* return exactly the fixed warning string, with no generate_content call
\* and no prompt sent.
C1_BlankInputWarns ==
    BlankCall =>
        /\ gpc = "returned"
        /\ result = Val(WarningString)
        /\ calls = 0
        /\ netCalls = 0
        /\ ~prompt.set
        /\ exc = NoExc

C1_Witness ==
    /\ gpc = "returned"
    /\ arg = Str(<<" ", " ">>)
    /\ result = Val(WarningString)
    /\ calls = 0

\* C2 as stated: every invocation with a non-blank argument that has ended
\* made exactly one generate_content call whose prompt contains the argument.
C2_Original ==
    (NonBlankCall /\ gpc \in {"returned", "raised"}) =>
        /\ calls = 1
        /\ prompt.set
        /\ IsSubstring(arg.s, prompt.s)

\* C2 amended: for a non-blank argument, once the model client has been
\* constructed the invocation makes exactly one generate_content call, never
\* a second one whether the call succeeds or fails, and its prompt contains
\* the argument unmodified; when constructing the client raises, the
\* invocation ends with zero calls.
C2_OneCallWithLiteralText ==
    NonBlankCall =>
        /\ gpc \in {"remote", "returned"} =>
              /\ calls = 1
              /\ netCalls = 1
              /\ prompt.set
              /\ IsSubstring(arg.s, prompt.s)
              /\ prompt.s = PromptHead \o arg.s \o PromptTail
        /\ gpc = "raised" =>
              /\ calls = 0
              /\ netCalls = 0
              /\ exc.at = "construct"

C2_Witness ==
    /\ gpc = "returned"
    /\ arg = Str(<<" ", "a">>)
    /\ exc.at = "request"
    /\ calls = 1

\* first and last index of the maximal run of backticks around index i
RunStart(s, i) ==
    CHOOSE j \in 1..i :
        /\ \A k \in j..i : s[k] = BACKTICK
        /\ (j = 1 \/ s[j - 1] # BACKTICK)

RunEnd(s, i) ==
    CHOOSE j \in i..Len(s) :
        /\ \A k \in i..j : s[k] = BACKTICK
        /\ (j = Len(s) \/ s[j + 1] # BACKTICK)

\* index i belongs to one of the triples taken out of its run: of a run of
\* n backticks the first 3 * (n \div 3) go
InFence(s, i) ==
    /\ s[i] = BACKTICK
    /\ i - RunStart(s, i) < 3 * ((RunEnd(s, i) - RunStart(s, i) + 1) \div 3)

\* the indices that survive: outside every removed triple, and not before the
\* first or after the last surviving non-whitespace character
Core(s) ==
    LET kept == {i \in 1..Len(s) : ~InFence(s, i)}
        solid == {i \in kept : s[i] \notin Whitespace}
    IN  {i \in kept : \E j, k \in solid : j <= i /\ i <= k}

\* the n-th smallest element of the set of indices I
Nth(I, n) == CHOOSE i \in I : Cardinality({j \in I : j <= i}) = n

HasTriple(s) ==
    \E i \in 1..(Len(s) - 2) :
        s[i] = BACKTICK /\ s[i + 1] = BACKTICK /\ s[i + 2] = BACKTICK

\* C3: after a successful response the returned string has no three
\* consecutive backticks and no leading or trailing whitespace, and is the
\* response text with exactly the removed triples and the trimmed ends
\* taken out, every other character kept in place and in order.
C3_FencesRemovedAndTrimmed ==
    (gpc = "returned" /\ response.set) =>
        /\ result.set
        /\ ~HasTriple(result.s)
        /\ result.s # <<>> =>
              /\ result.s[1] \notin Whitespace
              /\ result.s[Len(result.s)] \notin Whitespace
        /\ Len(result.s) = Cardinality(Core(response.s))
        /\ \A n \in 1..Len(result.s) :
              result.s[n] = response.s[Nth(Core(response.s), n)]

C3_Witness ==
    /\ gpc = "returned"
    /\ response = Val(<<BACKTICK, BACKTICK, BACKTICK, BACKTICK, " ">>)
    /\ result = Val(<<BACKTICK>>)

\* C4 as stated: whichever step raises, generate_er_note returns a string
\* containing the exception text.
C4_Original ==
    exc.at # "none" =>
        /\ gpc = "returned"
        /\ result.set
        /\ IsSubstring(exc.msg, result.s)

\* C4 amended: when issuing the request or reading the response text raises,
\* generate_er_note does not raise and returns the error prefix followed by
\* the exception text; an exception raised while constructing the model
\* client (line 28, outside the try block) propagates to the caller.
C4_RemoteFailureMapped ==
    /\ exc.at \in {"request", "text"} =>
          /\ gpc = "returned"
          /\ result = Val(ErrorPrefix \o exc.msg)
          /\ IsSubstring(exc.msg, result.s)
          /\ calls = 1
    /\ exc.at = "construct" =>
          /\ gpc = "raised"
          /\ ~result.set
    /\ gpc = "raised" => exc.at = "construct"

C4_Witness ==
    /\ gpc = "returned"
    /\ exc = [at |-> "text", msg |-> <<"quota exceeded">>]
    /\ result = Val(ErrorPrefix \o <<"quota exceeded">>)

-----------------------------------------------------------------------------
\* Properties of setup_api_key and the UI script (checked under Spec)

SetupRan == setupResult # "none"

\* the lookup fails: the variable is not in the environment and the secrets
\* lookup yields no value (key missing, no secrets store, malformed file)
LookupFails == ~env.set /\ secrets.kind # "value"

\* C5: on every kind of lookup failure setup_api_key returns false, no
\* exception escapes and the client is not configured.
C5_LookupFailureReturnsFalse ==
    (SetupRan /\ LookupFails) =>
        /\ setupResult = "false"
        /\ ~apiKey.set
        /\ configures = 0

\* C6 as stated: whenever the environment variable is present, with any
\* value, setup_api_key returns true, configures the client with that value
\* and does not consult the secrets mapping.
C6_Original ==
    (SetupRan /\ env.set) =>
        /\ setupResult = "true"
        /\ apiKey = Val(env.s)
        /\ ~consulted

\* C6 amended: whenever the environment variable is set to a non-empty
\* value, setup_api_key returns true having configured the client with
\* exactly that value, without consulting the secrets mapping, whatever the
\* state of the mapping; the mapping is consulted only if the variable is
\* absent or empty, and then its value is the one configured; whenever
\* setup_api_key returns true the client holds the resolved value.
C6_EnvironmentFirst ==
    SetupRan =>
        /\ (env.set /\ env.s # <<>>) =>
              /\ setupResult = "true"
              /\ apiKey = Val(env.s)
              /\ ~consulted
        /\ consulted => (~env.set \/ env.s = <<>>)
        /\ (setupResult = "true" /\ consulted) =>
              /\ secrets.kind = "value"
              /\ apiKey = Val(secrets.s)
        /\ setupResult = "true" => (apiKey.set /\ configures >= 1)
        /\ setupResult # "true" => ~apiKey.set

C6_Witness ==
    /\ setupResult = "true"
    /\ env = Val(K1)
    /\ secrets = [kind |-> "value", s |-> K2]
    /\ apiKey = Val(K1)
    /\ ~consulted

\* C7: in a process whose setup_api_key returned false, generate_er_note is
\* never invoked and no call to the external service is made, whatever the
\* user does; no input or submit control is offered; and the Blocked state
\* is left only by a restart of the process.
C7_BlockedNeverGenerates ==
    /\ [](setupResult = "false" =>
            /\ invocations = 0
            /\ netCalls = 0
            /\ pc = "wait"
            /\ gpc = "idle"
            /\ "button" \notin shown
            /\ "text_area" \notin shown)
    /\ [][Blocked => (Blocked' \/ pc' = "init")]_vars

C7_Witness ==
    /\ Blocked
    /\ runs >= 2
    /\ trigger = "rerun"
    /\ netCalls = 0

C9_Original ==
    (Idle /\ trigger = "submit") => (output.set /\ "markdown" \in shown)

\* C9 amended: Generating is entered only from Idle and only by a submit;
\* each submission invokes generate_er_note exactly once, with the current
\* text, while the spinner is shown; when generate_er_note returns, the page
\* goes back to Idle with that invocation's result as the whole output; when
\* it raises (the model client could not be constructed) the page goes back
\* to Idle with no output rendered; and, given that the remote call returns
\* or raises, every submission leaves Generating.
C9_SubmitCycle ==
    /\ [][(Generating' /\ ~Generating) =>
            /\ Idle
            /\ trigger' = "submit"
            /\ "spinner" \in shown'
            /\ ~output'.set]_vars
    /\ [][(invocations' # invocations /\ pc' # "init") =>
            /\ Generating
            /\ gpc = "idle"
            /\ invocations' = invocations + 1
            /\ arg' = Str(source_text)
            /\ "spinner" \in shown]_vars
    /\ [][(gpc # "idle" /\ gpc' = "idle") => ~Generating']_vars
    /\ [][(Generating /\ ~Generating' /\ pc' # "init") =>
            /\ Idle'
            /\ "spinner" \notin shown'
            /\ \/ /\ gpc = "returned"
                  /\ output' = result
                  /\ output'.set
                  /\ "markdown" \in shown'
               \/ /\ gpc = "raised"
                  /\ exc.at = "construct"
                  /\ ~output'.set
                  /\ "markdown" \notin shown']_vars
    /\ Generating ~> ~Generating

C9_Witness ==
    /\ Idle
    /\ trigger = "submit"
    /\ source_text = <<"a">>
    /\ output = Val(<<"a", BACKTICK>>)
    /\ "markdown" \in shown

\* C10 as stated: Blocked shows the configuration error and nothing else;
\* Idle shows the title, the input and the submit control and no error.
C10_Original ==
    /\ Blocked => shown = {"error"}
    /\ Idle => ({"title", "text_area", "button"} \subseteq shown /\ "error" \notin shown)

\* C10 amended: Blocked shows the title and the configuration error and no
\* other element (no input control, no submit control, no output region);
\* Idle shows the title, the input control and the submit control and not
\* the configuration error.
C10_PageElements ==
    /\ Blocked => shown = {"title", "error"}
    /\ Idle => ({"title", "text_area", "button"} \subseteq shown /\ "error" \notin shown)

C10_Witness ==
    /\ Blocked
    /\ shown = {"title", "error"}
    /\ secrets.kind = "KeyError"
====
